---- MODULE Spec2Model ----
(***************************************************************************)
(* A model of the path router of pschiffmann/ts-std (src/unnamed/part_004):*)
(* the pattern parser (Route.constructor), the precedence resolver         *)
(* (Route.findHighestPriorityRoute), the trie builder (constructTrie), the *)
(* matcher (Router.match) and sanitizePath with the trimStart and trimEnd  *)
(* of src/src/string.tsx it calls.                                         *)
(*                                                                         *)
(* Strings are sequences of atoms.  An atom is either one of the three     *)
(* characters the router inspects ("/", ":", "*") or a non-empty piece of  *)
(* text that contains none of them ("a", "constructor", ...).  String      *)
(* concatenation is \o, "" is <<>>.                                        *)
(***************************************************************************)
EXTENDS Integers, Sequences, FiniteSets, TLC

VARIABLES
    patterns,     \* the argument of `new Router(routes)`: a list of strings
    pc,           \* "new" | "building" | "ready" | "failed" ("idle": no router in play)
    routes,       \* Router.constructor: routes.map(p => new Route(p))
    queue,        \* constructTrie: the work queue (it only grows)
    qi,           \* constructTrie: index of the queue item the for-of loop visits next
    trie,         \* the nodes reachable from `root`, keyed by their path from the root
    builtTrie,    \* the trie as constructTrie returned it (history, never read by the code)
    error,        \* the Error the constructor threw, <<>> if none
    lastPath,     \* the argument of the latest Router.match call, <<>> if none
    lastResult,   \* what that call returned (or threw), <<>> if none
    parseInput,   \* SpecParse: the argument of one `new Route(pattern)`
    parseOutput,  \* SpecParse: the Route it built or the Error it threw, <<>> before
    rawPath,      \* SpecSanitize: the argument of the first sanitizePath(path) call
    cleanPath     \* SpecSanitize: what the calls so far returned, oldest first

vars == <<patterns, pc, routes, queue, qi, trie, builtTrie, error,
          lastPath, lastResult, parseInput, parseOutput, rawPath, cleanPath>>

routerVars == <<patterns, pc, routes, queue, qi, trie, builtTrie, error,
                lastPath, lastResult>>

---------------------------------------------------------------------------
(* Bounds of the model. *)

\* Router(routes): the patterns of one router have at most this many segments in total.
MaxTotalSegs == 4

\* Router.match(path): a path has at most this many segments.
MaxPathSegs == 2

\* new Route(pattern): a pattern has at most this many atoms.
MaxPatLen == 5

\* The segments the patterns of a router are made of.
SegPool == { <<"a">>, <<":", "a">>, <<":", "b">>, <<"*">> }

\* The ordinary segments the paths handed to Router.match are made of.
PathSegPool == { <<"a">>, <<"b">> }

\* Unusual path segments: the name of a property every plain object inherits,
\* and the empty segment that a leading, trailing or doubled "/" produces.
EdgeSegPool == { <<"constructor">>, <<>> }

\* The atoms the patterns handed to a single `new Route(pattern)` are made of.
ParseAlphabet == { "/", ":", "*", "a", "__proto__" }

---------------------------------------------------------------------------
(* JavaScript values the code relies on. *)

\* part_004:253  const param = Symbol(":param"): a value no string equals.
param == <<"@@Symbol(:param)">>

\* The value of reading an index past the end of an array, or a missing property.
undefined == <<"@@undefined">>

\* Property names every plain object `{}` inherits from Object.prototype; the
\* inherited values (functions, or Object.prototype itself) are all truthy.
InheritedProps == { <<"constructor">>, <<"__proto__">> }

\* `obj.hasOwnProperty(key)` for an object modelled as a function key -> value.
HasOwnProperty(obj, key) == key \in DOMAIN obj

\* `obj[key] = value` on a plain object: assigning a number to "__proto__" runs
\* the inherited setter, which ignores every value that is no object, so no own
\* property is created; every other key becomes an own property.
SetProperty(obj, key, value) ==
    IF key = <<"__proto__">> THEN obj
    ELSE [k \in DOMAIN obj \cup {key} |-> IF k = key THEN value ELSE obj[k]]

---------------------------------------------------------------------------
(* String operations. *)

\* String.prototype.startsWith / endsWith with a one-character argument.
StartsWith(s, c) == Len(s) > 0 /\ s[1] = c
EndsWith(s, c) == Len(s) > 0 /\ s[Len(s)] = c

\* pattern.includes("//")
IncludesDoubleSlash(s) ==
    \E i \in 1..(Len(s) - 1) : s[i] = "/" /\ s[i + 1] = "/"

\* String.prototype.split("/"): "" splits into [""], "a/" into ["a", ""].
RECURSIVE SplitFrom(_, _, _)
SplitFrom(s, i, cur) ==
    IF i > Len(s) THEN <<cur>>
    ELSE IF s[i] = "/" THEN <<cur>> \o SplitFrom(s, i + 1, <<>>)
    ELSE SplitFrom(s, i + 1, Append(cur, s[i]))

Split(s) == SplitFrom(s, 1, <<>>)

\* Array.prototype.join("/")
RECURSIVE Join(_)
Join(segs) ==
    IF Len(segs) = 0 THEN <<>>
    ELSE IF Len(segs) = 1 THEN segs[1]
    ELSE segs[1] \o <<"/">> \o Join(Tail(segs))

\* Array.prototype.slice(i) with a 0-based start index.
Slice(segs, i) == SubSeq(segs, i + 1, Len(segs))

\* array[i] with a 0-based index.
At(arr, i) == IF i >= 0 /\ i < Len(arr) THEN arr[i + 1] ELSE undefined

\* self.startsWith(pattern, i): the pattern stands at the 0-based position i.
StartsWithAt(self, pattern, i) ==
    /\ i + Len(pattern) <= Len(self)
    /\ SubSeq(self, i + 1, i + Len(pattern)) = pattern

\* self.endsWith(pattern, i): the first i characters of self end with the pattern.
EndsWithAt(self, pattern, i) ==
    /\ i <= Len(self)
    /\ Len(pattern) <= i
    /\ SubSeq(self, i - Len(pattern) + 1, i) = pattern

\* string.tsx:15-19, the while loop: the index behind the leading occurrences.
RECURSIVE TrimStartIndex(_, _, _)
TrimStartIndex(self, pattern, i) ==
    IF StartsWithAt(self, pattern, i)
    THEN TrimStartIndex(self, pattern, i + Len(pattern))
    ELSE i

\* A trim that drops one leading occurrence of the pattern at most.
trimStartOnce(self, pattern) ==
    IF StartsWithAt(self, pattern, 0)
    THEN SubSeq(self, Len(pattern) + 1, Len(self))
    ELSE self

\* string.tsx:15-19  trimStart(self, pattern)
trimStart(self, pattern) ==
    SubSeq(self, TrimStartIndex(self, pattern, 0) + 1, Len(self))

\* string.tsx:28-32, the while loop: the index before the trailing occurrences.
RECURSIVE TrimEndIndex(_, _, _)
TrimEndIndex(self, pattern, i) ==
    IF EndsWithAt(self, pattern, i)
    THEN TrimEndIndex(self, pattern, i - Len(pattern))
    ELSE i

\* string.tsx:28-32  trimEnd(self, pattern)
trimEnd(self, pattern) ==
    SubSeq(self, 1, TrimEndIndex(self, pattern, Len(self)))

\* The number of consecutive "/" that start at the 1-based position i.
RECURSIVE SlashRun(_, _)
SlashRun(s, i) ==
    IF i <= Len(s) /\ s[i] = "/" THEN 1 + SlashRun(s, i + 1) ELSE 0

\* s.replaceAll(/\/{2,}/g, replacement): the greedy pattern takes every maximal
\* run of two or more "/" as one match; a single "/" is no match.
RECURSIVE ReplaceSlashRunsFrom(_, _, _)
ReplaceSlashRunsFrom(s, i, replacement) ==
    IF i > Len(s) THEN <<>>
    ELSE LET run == SlashRun(s, i) IN
         IF run >= 2 THEN replacement \o ReplaceSlashRunsFrom(s, i + run, replacement)
         ELSE <<s[i]>> \o ReplaceSlashRunsFrom(s, i + 1, replacement)

ReplaceSlashRuns(s, replacement) == ReplaceSlashRunsFrom(s, 1, replacement)

\* part_004:8-12  sanitizePath(path): the runs are replaced by the empty string.
sanitizePath(path) ==
    ReplaceSlashRuns(trimEnd(trimStart(path, <<"/">>), <<"/">>), <<>>)

---------------------------------------------------------------------------
(* Route.constructor, part_004:154-199. *)

\* The three `throw new Error("Invalid route ...")` sites.
ErrSlashes == "Invalid route: must not start or end with '/', or contain empty path segments"
ErrWildcard == "Invalid route: a wildcard matcher '*' can only occur as the last route segment"
ErrDuplicateParam == "Invalid route: contains duplicate param"

InvalidRouteErrors == { ErrSlashes, ErrWildcard, ErrDuplicateParam }

\* The for-of loop over patternSegments.entries(), part_004:175-193.  `acc` holds
\* the locals `segments` and `params` and the Error thrown, if any.  Inside the
\* `startsWith(":")` branch the local `const param = segment.substring(1)`
\* shadows the module-level symbol `param`, so `segments.push(param)` pushes the
\* parameter's NAME, a string.
RECURSIVE RouteLoop(_, _, _)
RouteLoop(patternSegments, i, acc) ==
    IF i >= Len(patternSegments) THEN acc
    ELSE LET segment == patternSegments[i + 1] IN
         IF segment = <<"*">>
         THEN [acc EXCEPT !.error = ErrWildcard]
         ELSE IF StartsWith(segment, ":")
         THEN LET name == Tail(segment) IN
              IF HasOwnProperty(acc.params, name)
              THEN [acc EXCEPT !.error = ErrDuplicateParam]
              ELSE RouteLoop(patternSegments, i + 1,
                       [acc EXCEPT !.segments = Append(@, name),
                                   !.params = SetProperty(@, name, i)])
         ELSE RouteLoop(patternSegments, i + 1,
                  [acc EXCEPT !.segments = Append(@, segment)])

\* new Route(pattern): the Route built, or the Error thrown in `error`.
NewRoute(pattern) ==
    LET blank == [error |-> "", pattern |-> pattern, segments |-> <<>>,
                  params |-> <<>>, matchesSubPaths |-> FALSE]
    IN
    IF StartsWith(pattern, "/") \/ EndsWith(pattern, "/") \/ IncludesDoubleSlash(pattern)
    THEN [blank EXCEPT !.error = ErrSlashes]
    ELSE LET split == Split(pattern)
             splat == split[Len(split)] = <<"*">>
             patternSegments == IF splat THEN SubSeq(split, 1, Len(split) - 1) ELSE split
         IN RouteLoop(patternSegments, 0, [blank EXCEPT !.matchesSubPaths = splat])

---------------------------------------------------------------------------
(* Route.findHighestPriorityRoute, part_004:227-250. *)

ErrSamePath == "Routes match the same path"

\* An optional value (`T | null`, `T | undefined`): <<>> or <<value>>.
Some(x) == <<x>>
None == <<>>

\* The inner for loop, part_004:234-244: "replace" is `best = route; continue
\* compareRoutes`, "keep" is `continue compareRoutes`, "throw" is falling out of
\* the loop into the throw statement.
RECURSIVE CompareSegments(_, _, _)
CompareSegments(best, route, i) ==
    IF i >= Len(best.segments) THEN "throw"
    ELSE LET bestSegment == At(best.segments, i)
             routeSegment == At(route.segments, i)
         IN IF bestSegment = param /\ routeSegment # param THEN "replace"
            ELSE IF bestSegment # param /\ routeSegment = param THEN "keep"
            ELSE CompareSegments(best, route, i + 1)

\* The outer loop `compareRoutes`, from the k-th route on.
RECURSIVE CompareRoutes(_, _, _)
CompareRoutes(rs, k, best) ==
    IF k > Len(rs) THEN [error |-> None, best |-> best]
    ELSE LET route == rs[k] IN
         IF best = None THEN CompareRoutes(rs, k + 1, Some(route))
         ELSE LET verdict == CompareSegments(best[1], route, 0) IN
              IF verdict = "replace" THEN CompareRoutes(rs, k + 1, Some(route))
              ELSE IF verdict = "keep" THEN CompareRoutes(rs, k + 1, best)
              ELSE [error |-> Some([message |-> ErrSamePath,
                                    patterns |-> <<best[1].pattern, route.pattern>>]),
                    best |-> best]

\* First-registered-wins: the first route is the best one, whatever follows.
findFirstRoute(rs) ==
    [error |-> None, best |-> IF rs = <<>> THEN None ELSE Some(rs[1])]

\* Route.findHighestPriorityRoute(routes): `best` (null is None), or the Error thrown.
findHighestPriorityRoute(rs) == CompareRoutes(rs, 1, None)

---------------------------------------------------------------------------
(* constructTrie, part_004:259-300.  A TrieNode is identified by its path  *)
(* from the root (the sequence of child keys leading to it); `children`    *)
(* holds the keys of the node's child mapping, the child under key k of    *)
(* the node at path p being the node at path Append(p, k).                 *)

\* The object literal `{ match: null, children: {} }`, part_004:260 and 286.  It
\* sets no `matchesSubPaths`, and nothing assigns one later: reading the
\* property yields undefined, which the matcher's `else if` takes as false.
NewNode == [match |-> None, children |-> {}, matchesSubPaths |-> FALSE]

\* A partition that takes a route as terminated one level too late.
IsExactMatchLate(route, i) ==
    \/ Len(route.segments) = i - 1
    \/ (i - 1 > Len(route.segments) /\ route.matchesSubPaths)

\* part_004:269-272: the route goes to `exactMatch` at depth i.
IsExactMatch(route, i) ==
    \/ Len(route.segments) = i
    \/ (i > Len(route.segments) /\ route.matchesSubPaths)

\* A filter that also hands every splat route on to the child.
KeepsRouteOrSplat(route, i, segment) ==
    \/ At(route.segments, i) = segment
    \/ At(route.segments, i) = param
    \/ route.matchesSubPaths

\* part_004:290-293: the filter that selects the routes of the child under
\* `segment`.
KeepsRoute(route, i, segment) ==
    At(route.segments, i) = segment \/ At(route.segments, i) = param

\* The elements of a sequence in order of first occurrence (a JS Set iterates
\* in insertion order).
RECURSIVE Distinct(_)
Distinct(s) ==
    IF s = <<>> THEN <<>>
    ELSE LET front == Distinct(SubSeq(s, 1, Len(s) - 1))
             last == s[Len(s)]
         IN IF \E k \in 1..Len(front) : front[k] = last THEN front
            ELSE Append(front, last)

\* part_004:261: the queue starts with the root and every route.
InitialQueue(rs) ==
    [queue |-> << [path |-> <<>>, routes |-> rs, node |-> <<>>] >>,
     qi |-> 1,
     trie |-> (<<>> :> NewNode),
     error |-> None]

\* One iteration of `for (const { path, routes, node } of queue)`,
\* part_004:263-297, on the item the loop visits next.
ConstructTrieItem(st) ==
    LET item == st.queue[st.qi]
        i == Len(item.path)
        IsExact(route) == IsExactMatch(route, i)
        IsPrefix(route) == ~IsExactMatch(route, i)
        exactMatch == SelectSeq(item.routes, IsExact)
        prefixMatch == SelectSeq(item.routes, IsPrefix)
        nextSegments ==
            Distinct([k \in 1..Len(prefixMatch) |-> At(prefixMatch[k].segments, i)])
        found == findHighestPriorityRoute(exactMatch)
    IN
    IF found.error # None THEN [st EXCEPT !.error = found.error]
    ELSE
    LET bestMatch == found.best
        matched ==
            IF bestMatch # None
            THEN [st.trie EXCEPT ![item.node].match =
                     Some([route |-> bestMatch[1].pattern, params |-> bestMatch[1].params])]
            ELSE st.trie
        nextNodes == { Append(item.path, nextSegments[k]) : k \in 1..Len(nextSegments) }
        pushed ==
            [k \in 1..Len(nextSegments) |->
                LET segment == nextSegments[k]
                    Keep(route) == KeepsRoute(route, i, segment)
                IN [path |-> Append(item.path, segment),
                    routes |-> SelectSeq(item.routes, Keep),
                    node |-> Append(item.path, segment)]]
    IN [queue |-> st.queue \o pushed,
        qi |-> st.qi + 1,
        trie |-> [n \in DOMAIN matched \cup nextNodes |->
                    IF n \in nextNodes THEN NewNode
                    ELSE IF n = item.node
                    THEN [matched[n] EXCEPT
                            !.children = @ \cup { nextSegments[k] : k \in 1..Len(nextSegments) }]
                    ELSE matched[n]],
        error |-> None]

\* The whole for-of loop: items are visited until the queue is exhausted or an
\* iteration throws.
RECURSIVE ConstructTrieLoop(_)
ConstructTrieLoop(st) ==
    IF st.error # None \/ st.qi > Len(st.queue) THEN st
    ELSE ConstructTrieLoop(ConstructTrieItem(st))

\* constructTrie(routes): the final loop state; `trie` is what `return root` hands
\* back unless `error` was thrown.
constructTrie(rs) == ConstructTrieLoop(InitialQueue(rs))

\* routes.map((pattern) => new Route(pattern)), part_004:107: the routes, or the
\* first Error a `new Route` throws.
NewRoutes(pats) ==
    LET parsed == [k \in 1..Len(pats) |-> NewRoute(pats[k])]
        bad == { k \in 1..Len(pats) : parsed[k].error # "" }
    IN IF bad = {} THEN [error |-> None, routes |-> parsed]
       ELSE LET k == CHOOSE k \in bad : \A j \in bad : k <= j
            IN [error |-> Some([message |-> parsed[k].error, patterns |-> <<pats[k]>>]),
                routes |-> <<>>]

\* new Router(routes), part_004:106-108, run to completion: the trie stored in
\* `#trie`, or the Error thrown.
NewRouter(pats) ==
    LET parsed == NewRoutes(pats) IN
    IF parsed.error # None THEN [error |-> parsed.error, trie |-> <<>>]
    ELSE LET built == constructTrie(parsed.routes)
         IN [error |-> built.error, trie |-> built.trie]

---------------------------------------------------------------------------
(* Router.match, part_004:118-145. *)

\* What `match` hands back: a RouteMatch, null, or a TypeError thrown by the
\* JavaScript engine.
NullResult == [kind |-> "null", route |-> <<>>, params |-> <<>>]
TypeErrorResult == [kind |-> "TypeError", route |-> <<>>, params |-> <<>>]

\* `current` is a TrieNode (inherited = FALSE, node = its path) or a value
\* inherited from Object.prototype that `current.children[segment]` returned
\* (inherited = TRUE): such a value is truthy and has neither `children` nor
\* `match`.
AtNode(n) == [inherited |-> FALSE, node |-> n]
AtInherited == [inherited |-> TRUE, node |-> <<>>]

\* The for-of loop over segments.entries(), part_004:123-135.
RECURSIVE MatchLoop(_, _, _, _)
MatchLoop(t, segments, i, current) ==
    IF i >= Len(segments)
    THEN [outcome |-> "end", current |-> current, subPath |-> None]
    ELSE IF current.inherited
    THEN [outcome |-> "TypeError", current |-> current, subPath |-> None]
    ELSE LET segment == segments[i + 1]
             children == t[current.node].children
         IN IF segment \in children
            THEN MatchLoop(t, segments, i + 1, AtNode(Append(current.node, segment)))
            ELSE IF segment \in InheritedProps
            THEN MatchLoop(t, segments, i + 1, AtInherited)
            ELSE IF param \in children
            THEN MatchLoop(t, segments, i + 1, AtNode(Append(current.node, param)))
            ELSE IF t[current.node].matchesSubPaths
            THEN [outcome |-> "end", current |-> current,
                  subPath |-> Some(Join(Slice(segments, i)))]
            ELSE [outcome |-> "null", current |-> current, subPath |-> None]

\* $Object.map(current.match.params, (_, index) => segments[index]), spread
\* together with `subPath && { "*": subPath }`: an undefined or empty subPath
\* is falsy and adds nothing.
MatchParams(params, segments, subPath) ==
    LET captured == [name \in DOMAIN params |-> At(segments, params[name])]
    IN IF subPath # None /\ subPath[1] # <<>>
       THEN [name \in DOMAIN captured \cup {<<"*">>} |->
                IF name = <<"*">> THEN subPath[1] ELSE captured[name]]
       ELSE captured

\* The value `match(path)` returns on the trie t.
match(t, path) ==
    LET segments == Split(path)
        walk == MatchLoop(t, segments, 0, AtNode(<<>>))
    IN IF walk.outcome = "TypeError" THEN TypeErrorResult
       ELSE IF walk.outcome = "null" THEN NullResult
       ELSE IF walk.current.inherited THEN NullResult
       ELSE LET found == t[walk.current.node].match IN
            IF found = None THEN NullResult
            ELSE [kind |-> "match",
                  route |-> found[1].route,
                  params |-> MatchParams(found[1].params, segments, walk.subPath)]

\* A match that consumes what it finds: the match record of the node the walk
\* ends on is cleared.
RouterMatchOnce(t, path) ==
    LET walk == MatchLoop(t, Split(path), 0, AtNode(<<>>)) IN
    [returned |-> match(t, path),
     trie |-> IF walk.outcome = "end" /\ ~walk.current.inherited
              THEN [t EXCEPT ![walk.current.node].match = None]
              ELSE t]

\* One call of router.match(path): what it returns and the trie it leaves
\* behind.  The method assigns to its locals only (segments, current, subPath).
RouterMatch(t, path) == [returned |-> match(t, path), trie |-> t]

---------------------------------------------------------------------------
(* The router's life: construction, then any number of match calls. *)

\* Route lists: a sequence of pool segments cut into patterns after the
\* positions in `cuts`.
RECURSIVE CutPatterns(_, _, _, _)
CutPatterns(flat, cuts, i, cur) ==
    IF i > Len(flat) THEN (IF cur = <<>> THEN <<>> ELSE <<Join(cur)>>)
    ELSE LET cur2 == Append(cur, flat[i]) IN
         IF i \in cuts THEN <<Join(cur2)>> \o CutPatterns(flat, cuts, i + 1, <<>>)
         ELSE CutPatterns(flat, cuts, i + 1, cur2)

\* Every list of patterns over SegPool with at most MaxTotalSegs segments in total.
RouteLists ==
    { CutPatterns(flat, cuts, 1, <<>>) :
        flat \in UNION { [1..k -> SegPool] : k \in 0..MaxTotalSegs },
        cuts \in SUBSET (1..(MaxTotalSegs - 1)) }

\* Every path of 1..MaxPathSegs ordinary segments.
PlainPaths ==
    { Join(segs) : segs \in UNION { [1..k -> PathSegPool] : k \in 1..MaxPathSegs } }

\* The paths with an unusual segment: alone, before "a" and after "a".
EdgePaths ==
    UNION { { e, Join(<< <<"a">>, e >>), Join(<< e, <<"a">> >>) } : e \in EdgeSegPool }

Paths == PlainPaths \cup EdgePaths

ParseIdle == parseInput = <<>> /\ parseOutput = <<>>

SanitizeIdle == rawPath = <<>> /\ cleanPath = <<>>

Init ==
    /\ patterns \in RouteLists
    /\ pc = "new"
    /\ routes = <<>> /\ queue = <<>> /\ qi = 0
    /\ trie = <<>> /\ builtTrie = <<>> /\ error = None
    /\ lastPath = None /\ lastResult = None
    /\ ParseIdle
    /\ SanitizeIdle

\* new Router(routes), part_004:106-107: every pattern is parsed; then
\* constructTrie sets up its root and its queue.
Construct ==
    /\ pc = "new"
    /\ LET parsed == NewRoutes(patterns) IN
       IF parsed.error # None
       THEN /\ pc' = "failed"
            /\ error' = parsed.error
            /\ UNCHANGED <<routes, queue, qi, trie>>
       ELSE LET st == InitialQueue(parsed.routes) IN
            /\ pc' = "building"
            /\ routes' = parsed.routes
            /\ queue' = st.queue /\ qi' = st.qi /\ trie' = st.trie
            /\ UNCHANGED error
    /\ UNCHANGED <<patterns, builtTrie, lastPath, lastResult,
                   parseInput, parseOutput, rawPath, cleanPath>>

\* constructTrie: one iteration of the loop over the queue.
ConstructTrieStep ==
    /\ pc = "building"
    /\ qi <= Len(queue)
    /\ LET st == ConstructTrieItem([queue |-> queue, qi |-> qi, trie |-> trie,
                                    error |-> None])
       IN IF st.error # None
          THEN /\ pc' = "failed"
               /\ error' = st.error
               /\ UNCHANGED <<queue, qi, trie>>
          ELSE /\ queue' = st.queue /\ qi' = st.qi /\ trie' = st.trie
               /\ UNCHANGED <<pc, error>>
    /\ UNCHANGED <<patterns, routes, builtTrie, lastPath, lastResult,
                   parseInput, parseOutput, rawPath, cleanPath>>

\* constructTrie: the queue is exhausted, `return root`, and the constructor
\* stores the root in `#trie`.
ConstructTrieReturn ==
    /\ pc = "building"
    /\ qi > Len(queue)
    /\ pc' = "ready"
    /\ builtTrie' = trie
    /\ UNCHANGED <<patterns, routes, queue, qi, trie, error, lastPath, lastResult,
                   parseInput, parseOutput, rawPath, cleanPath>>

\* router.match(path)
Match(path) ==
    /\ pc = "ready"
    /\ LET call == RouterMatch(trie, path) IN
       /\ trie' = call.trie
       /\ lastResult' = Some(call.returned)
    /\ lastPath' = Some(path)
    /\ UNCHANGED <<patterns, pc, routes, queue, qi, builtTrie, error,
                   parseInput, parseOutput, rawPath, cleanPath>>

Next ==
    \/ Construct
    \/ ConstructTrieStep
    \/ ConstructTrieReturn
    \/ \E path \in Paths : Match(path)

Spec == Init /\ [][Next]_vars

\* The constructor alone.
NextConstruct ==
    \/ Construct
    \/ ConstructTrieStep
    \/ ConstructTrieReturn

\* ENABLED <<Construct \/ ConstructTrieStep>>_vars: the constructor is about to
\* parse the routes, or its loop has a queue item to visit.
ConstructRunning == pc = "new" \/ (pc = "building" /\ qi <= Len(queue))

\* <<Construct \/ ConstructTrieStep>>_vars: such a step was taken; it changes pc
\* or advances qi.
ConstructStepped == ConstructRunning /\ (pc' # pc \/ qi' # qi)

\* `new Router(routes)` is one synchronous call: once entered, nothing but its
\* own next step can happen, and that step is taken.  This is weak fairness of
\* each step; for Construct and ConstructTrieStep it is written out with the
\* two abbreviations above.
ConstructFairness ==
    /\ WF_vars(ConstructTrieReturn)
    /\ \/ []<>(~ConstructRunning)
       \/ []<><<ConstructStepped>>_vars

SpecConstruct == Init /\ [][NextConstruct]_vars /\ ConstructFairness

---------------------------------------------------------------------------
(* The same life of a router whose patterns and paths use "__proto__", the  *)
(* one property name whose assignment on a plain object creates no own      *)
(* property.                                                                *)

\* The segments of these patterns, and the segments of the paths matched.
ProtoSegPool == { <<"a">>, <<":", "a">>, <<":", "__proto__">> }
ProtoPathSegPool == { <<"a">>, <<"__proto__">> }

\* Every list of patterns over ProtoSegPool with at most MaxTotalSegs segments in total.
ProtoRouteLists ==
    { CutPatterns(flat, cuts, 1, <<>>) :
        flat \in UNION { [1..k -> ProtoSegPool] : k \in 0..MaxTotalSegs },
        cuts \in SUBSET (1..(MaxTotalSegs - 1)) }

\* Every path of 1..MaxPathSegs segments over ProtoPathSegPool.
ProtoPaths ==
    { Join(segs) : segs \in UNION { [1..k -> ProtoPathSegPool] : k \in 1..MaxPathSegs } }

InitProto ==
    /\ patterns \in ProtoRouteLists
    /\ pc = "new"
    /\ routes = <<>> /\ queue = <<>> /\ qi = 0
    /\ trie = <<>> /\ builtTrie = <<>> /\ error = None
    /\ lastPath = None /\ lastResult = None
    /\ ParseIdle
    /\ SanitizeIdle

NextProto ==
    \/ Construct
    \/ ConstructTrieStep
    \/ ConstructTrieReturn
    \/ \E path \in ProtoPaths : Match(path)

SpecProto == InitProto /\ [][NextProto]_vars

---------------------------------------------------------------------------
(* One `new Route(pattern)` on an arbitrary string. *)

\* All strings of at most n atoms over an alphabet.
StringsUpTo(alphabet, n) == UNION { [1..k -> alphabet] : k \in 0..n }

RouterIdle ==
    /\ patterns = <<>> /\ pc = "idle" /\ routes = <<>> /\ queue = <<>> /\ qi = 0
    /\ trie = <<>> /\ builtTrie = <<>> /\ error = <<>>
    /\ lastPath = <<>> /\ lastResult = <<>>

InitParse ==
    /\ RouterIdle
    /\ parseInput \in StringsUpTo(ParseAlphabet, MaxPatLen)
    /\ parseOutput = <<>>
    /\ SanitizeIdle

ParseRoute ==
    /\ parseOutput = <<>>
    /\ parseOutput' = <<NewRoute(parseInput)>>
    /\ UNCHANGED <<routerVars, parseInput, rawPath, cleanPath>>

NextParse == ParseRoute

SpecParse == InitParse /\ [][NextParse]_vars

---------------------------------------------------------------------------
(* sanitizePath on an arbitrary string, and again on what it returned. *)

\* sanitizePath(path): a raw path has at most this many characters.
MaxRawLen == 6

\* sanitizePath is called at most this many times in a row.
MaxSanitizeCalls == 2

\* The characters raw paths are made of.
SanitizeAlphabet == { "/", "a", "b" }

InitSanitize ==
    /\ RouterIdle
    /\ ParseIdle
    /\ rawPath \in StringsUpTo(SanitizeAlphabet, MaxRawLen)
    /\ cleanPath = <<>>

\* sanitizePath(rawPath), then sanitizePath of the previous result.
Sanitize ==
    /\ Len(cleanPath) < MaxSanitizeCalls
    /\ LET path == IF cleanPath = <<>> THEN rawPath ELSE cleanPath[Len(cleanPath)]
       IN cleanPath' = Append(cleanPath, sanitizePath(path))
    /\ UNCHANGED <<routerVars, parseInput, parseOutput, rawPath>>

NextSanitize == Sanitize

SpecSanitize == InitSanitize /\ [][NextSanitize]_vars

---------------------------------------------------------------------------
(* Claims about the pattern parser. *)

\* Two different segments of the pattern are `:name` segments with the same name.
HasRepeatedParamName(pattern) ==
    LET segs == Split(pattern) IN
    \E i, j \in 1..Len(segs) :
        /\ i < j
        /\ StartsWith(segs[i], ":") /\ StartsWith(segs[j], ":")
        /\ Tail(segs[i]) = Tail(segs[j])

\* A segment other than the last one is `*`.
HasNonFinalWildcard(pattern) ==
    LET segs == Split(pattern) IN
    \E i \in 1..(Len(segs) - 1) : segs[i] = <<"*">>

\* The five defects the pattern parser is documented to reject.
DefectivePattern(pattern) ==
    \/ StartsWith(pattern, "/")
    \/ EndsWith(pattern, "/")
    \/ IncludesDoubleSlash(pattern)
    \/ HasNonFinalWildcard(pattern)
    \/ HasRepeatedParamName(pattern)

\* C7: a pattern that starts or ends with "/", contains "//", has a `*` segment
\* in a non-final position or has two `:name` segments with the same name makes
\* `new Route(pattern)` throw an invalid-route error (so that the Router
\* constructor, which parses every pattern first, returns no router).
C7_InvalidPatternRejected ==
    (parseOutput # <<>> /\ DefectivePattern(parseInput))
        => parseOutput[1].error \in InvalidRouteErrors

---------------------------------------------------------------------------
(* What the documentation says a pattern means, read off the pattern       *)
(* string itself (none of this uses the parser or the trie).               *)

IsParamSegment(seg) == StartsWith(seg, ":")

IsSplatPattern(pattern) ==
    LET segs == Split(pattern) IN segs[Len(segs)] = <<"*">>

\* The pattern's segments without a trailing `*`.
PrefixSegments(pattern) ==
    LET segs == Split(pattern) IN
    IF IsSplatPattern(pattern) THEN SubSeq(segs, 1, Len(segs) - 1) ELSE segs

HasParamSegment(pattern) ==
    \E i \in 1..Len(PrefixSegments(pattern)) : IsParamSegment(PrefixSegments(pattern)[i])

\* The path segments agree with the pattern segments at every literal position.
Fits(patSegs, pathSegs) ==
    /\ Len(patSegs) = Len(pathSegs)
    /\ \A i \in 1..Len(patSegs) : IsParamSegment(patSegs[i]) \/ patSegs[i] = pathSegs[i]

\* Each param name of the pattern, mapped to the path segment at its position.
Captured(patSegs, pathSegs) ==
    LET at == { i \in 1..Len(patSegs) : IsParamSegment(patSegs[i]) } IN
    [name \in { Tail(patSegs[i]) : i \in at } |->
        pathSegs[CHOOSE i \in at : Tail(patSegs[i]) = name]]

AllPatternsValid == \A k \in 1..Len(patterns) : ~DefectivePattern(patterns[k])

NoSplatPattern == \A k \in 1..Len(patterns) : ~IsSplatPattern(patterns[k])

\* Same number of segments, and at every position both a param or the same text.
SameShape(segsP, segsQ) ==
    /\ Len(segsP) = Len(segsQ)
    /\ \A i \in 1..Len(segsP) :
          \/ IsParamSegment(segsP[i]) /\ IsParamSegment(segsQ[i])
          \/ segsP[i] = segsQ[i]

\* Two registered patterns of the same shape (trailing `*` counted as a segment).
HasDuplicatePatterns ==
    \E i, j \in 1..Len(patterns) :
        i < j /\ SameShape(Split(patterns[i]), Split(patterns[j]))

\* Two registered patterns whose segments before a trailing `*` have the same shape.
HasIndistinguishablePatterns ==
    \E i, j \in 1..Len(patterns) :
        i < j /\ SameShape(PrefixSegments(patterns[i]), PrefixSegments(patterns[j]))

\* The latest match call was made, on a plain path (non-empty ordinary segments).
MatchedPlainPath == lastPath # None /\ lastPath[1] \in PlainPaths

---------------------------------------------------------------------------
(* Claims about the router. *)

\* C1: parameter capture.  On a router built from one splat-free pattern with
\* `:name` segments, every path with the pattern's number of segments that
\* agrees with it at the literal positions is matched with route = the
\* pattern, and params maps each param name to the path segment at its
\* position.
C1_ParameterCapture ==
    ( /\ MatchedPlainPath
      /\ Len(patterns) = 1
      /\ HasParamSegment(patterns[1]) /\ ~IsSplatPattern(patterns[1])
      /\ Fits(Split(patterns[1]), Split(lastPath[1])) )
    => /\ lastResult[1].kind = "match"
       /\ lastResult[1].route = patterns[1]
       /\ lastResult[1].params = Captured(Split(patterns[1]), Split(lastPath[1]))

\* The registered patterns the path fits, as indices into `patterns`.
Candidates(path) ==
    { k \in 1..Len(patterns) : Fits(Split(patterns[k]), Split(path)) }

\* Pattern k has a literal, and pattern j a param, at the first position where
\* the two differ in kind.
MoreSpecific(k, j) ==
    LET segsK == Split(patterns[k])
        segsJ == Split(patterns[j])
        differ == { i \in 1..Len(segsK) :
                      IsParamSegment(segsK[i]) # IsParamSegment(segsJ[i]) }
    IN /\ differ # {}
       /\ ~IsParamSegment(segsK[CHOOSE i \in differ : \A h \in differ : i <= h])

\* C2: literal-over-param precedence.  On a router of splat-free patterns no
\* two of which have the same shape, when several patterns fit the matched
\* path, match returns the one that has a literal at the first position where
\* it differs in kind from each other candidate, with that pattern's captures.
C2_LiteralOverParam ==
    ( /\ MatchedPlainPath
      /\ NoSplatPattern
      /\ ~HasDuplicatePatterns
      /\ Cardinality(Candidates(lastPath[1])) >= 2 )
    => \E k \in Candidates(lastPath[1]) :
          /\ \A j \in Candidates(lastPath[1]) \ {k} : MoreSpecific(k, j)
          /\ lastResult[1].kind = "match"
          /\ lastResult[1].route = patterns[k]
          /\ lastResult[1].params = Captured(Split(patterns[k]), Split(lastPath[1]))

\* C3: duplicate detection.  When all patterns are well-formed and two of them
\* have the same shape, construction ends with the 'match the same path' error
\* and no router.
C3_DuplicateDetection ==
    ( /\ pc \in {"ready", "failed"}
      /\ AllPatternsValid
      /\ HasDuplicatePatterns )
    => /\ pc = "failed"
       /\ error[1].message = ErrSamePath

\* C4: splat capture.  On a router built from one splat pattern with literal
\* segments only, every plain path that starts with those segments is matched;
\* params is {"*": the further segments joined by "/"} when there are further
\* segments and {} when there are none.
C4_SplatCapture ==
    ( /\ MatchedPlainPath
      /\ Len(patterns) = 1
      /\ IsSplatPattern(patterns[1]) /\ ~HasParamSegment(patterns[1])
      /\ Len(Split(lastPath[1])) >= Len(PrefixSegments(patterns[1]))
      /\ SubSeq(Split(lastPath[1]), 1, Len(PrefixSegments(patterns[1])))
            = PrefixSegments(patterns[1]) )
    => LET rest == Slice(Split(lastPath[1]), Len(PrefixSegments(patterns[1]))) IN
       /\ lastResult[1].kind = "match"
       /\ lastResult[1].route = patterns[1]
       /\ lastResult[1].params =
             IF rest = <<>> THEN <<>> ELSE (<<"*">> :> Join(rest))

\* C5: empty splat capture.  On a router built from one splat pattern with
\* literal segments only (at least one), the path made of those segments and a
\* trailing "/" is matched with params {"*": ""}.
C5_EmptySplatCapture ==
    ( /\ lastPath # None
      /\ Len(patterns) = 1
      /\ IsSplatPattern(patterns[1]) /\ ~HasParamSegment(patterns[1])
      /\ PrefixSegments(patterns[1]) # <<>>
      /\ lastPath[1] = Join(PrefixSegments(patterns[1])) \o <<"/">> )
    => /\ lastResult[1].kind = "match"
       /\ lastResult[1].route = patterns[1]
       /\ lastResult[1].params = (<<"*">> :> <<>>)

\* No leading, trailing or doubled "/".
SanitizedPath(path) ==
    ~StartsWith(path, "/") /\ ~EndsWith(path, "/") /\ ~IncludesDoubleSlash(path)

\* Some registered pattern matches the path: its segments before a trailing `*`
\* fit the path (a splat pattern: the beginning of the path).
SomePatternMatches(path) ==
    \E k \in 1..Len(patterns) :
        LET pre == PrefixSegments(patterns[k])
            segs == Split(path)
        IN IF IsSplatPattern(patterns[k])
           THEN Len(segs) >= Len(pre) /\ Fits(pre, SubSeq(segs, 1, Len(pre)))
           ELSE Fits(pre, segs)

\* C6: match never fails.  On a constructed router, match of a sanitized path
\* returns a RouteMatch or null and throws nothing, and it returns null when no
\* registered pattern matches the path.
C6_MatchNeverFails ==
    (lastPath # None /\ SanitizedPath(lastPath[1]))
    => /\ lastResult[1].kind \in {"match", "null"}
       /\ (~SomePatternMatches(lastPath[1]) => lastResult[1].kind = "null")

\* C8: construction of a well-formed, duplicate-free pattern list succeeds.
\* Two patterns are duplicates only if no position distinguishes them by
\* literal-vs-param kind or by literal text.
C8_ConstructSucceeds ==
    (AllPatternsValid /\ ~HasIndistinguishablePatterns) => pc # "failed"

\* Every reordering of the registered patterns.
Reorderings ==
    { [k \in 1..Len(patterns) |-> patterns[f[k]]] : f \in Permutations(1..Len(patterns)) }

\* C9: registration-order independence.  Once construction has ended, every
\* reordering of the pattern list fails to construct if this one failed, and
\* constructs if this one did; the reordered router then returns (or throws)
\* for every path what this router does.
C9_OrderIndependence ==
    /\ pc = "failed" =>
          \A other \in Reorderings : NewRouter(other).error # None
    /\ (pc = "ready" /\ lastPath = None) =>
          \A other \in Reorderings :
              LET reordered == NewRouter(other) IN
              /\ reordered.error = None
              /\ \A path \in Paths : match(reordered.trie, path) = match(trie, path)

\* A router of three patterns (two of them with params, one with a splat) has
\* been constructed, and it matches some path, capturing a param.
C9_Witness ==
    /\ pc = "ready"
    /\ Len(patterns) = 3
    /\ HasParamSegment(patterns[1]) /\ HasParamSegment(patterns[3])
    /\ IsSplatPattern(patterns[2])
    /\ lastPath = None
    /\ \E path \in Paths : match(trie, path).kind = "match" /\ match(trie, path).params # <<>>

\* C10: match is a pure read.  From the moment the router is constructed its
\* trie (every node's match record and child keys) stays what constructTrie
\* returned, whatever match calls were made, and the latest call returned what
\* match returns on that unchanged trie, hence what the first call for that
\* path returned.
C10_MatchIsPure ==
    pc = "ready" =>
        /\ trie = builtTrie
        /\ lastPath # None => lastResult[1] = match(builtTrie, lastPath[1])

\* A match call has returned a RouteMatch on a router with several nodes.
C10_Witness ==
    /\ pc = "ready"
    /\ lastPath # None
    /\ lastResult[1].kind = "match"
    /\ Cardinality(DOMAIN trie) >= 3

---------------------------------------------------------------------------
(* Claims about sanitizePath. *)

\* The segments of a split path that are not the empty string.
NonEmptySegments(segs) ==
    LET NonEmpty(seg) == seg # <<>> IN SelectSeq(segs, NonEmpty)

\* C11: sanitizePath is idempotent.  Every further call returns what the
\* previous call returned, and a path with no leading "/", no trailing "/" and
\* no "//" is returned unchanged by the first call.
C11_SanitizeIdempotent ==
    /\ \A k \in 2..Len(cleanPath) : cleanPath[k] = cleanPath[k - 1]
    /\ (Len(cleanPath) >= 1 /\ SanitizedPath(rawPath)) => cleanPath[1] = rawPath

\* sanitizePath was called twice; the first call changed its argument and
\* returned a path of more than one segment.
C11_Witness ==
    /\ Len(cleanPath) = 2
    /\ cleanPath[1] # rawPath
    /\ Len(Split(cleanPath[1])) >= 2

\* C12: sanitizePath strips the leading and trailing "/" and collapses every
\* run of "/" into one: the result is the non-empty segments of the raw path,
\* joined by "/".
C12_SanitizeCollapses ==
    Len(cleanPath) >= 1 =>
        cleanPath[1] = Join(NonEmptySegments(Split(rawPath)))

---------------------------------------------------------------------------
(* Claims about constructTrie. *)

\* The segment count of the longest parsed route.
LongestRoute ==
    IF routes = <<>> THEN 0
    ELSE LET k == CHOOSE k \in 1..Len(routes) :
                     \A j \in 1..Len(routes) :
                         Len(routes[j].segments) <= Len(routes[k].segments)
         IN Len(routes[k].segments)

\* The queue starts with the root item; every later item is one segment deeper
\* than an item before it, and none is deeper than the longest route.
QueueIsLayered ==
    \A k \in 1..Len(queue) :
        /\ Len(queue[k].path) <= LongestRoute
        /\ IF k = 1 THEN queue[k].path = <<>>
           ELSE /\ queue[k].path # <<>>
                /\ \E j \in 1..(k - 1) :
                       queue[j].path = SubSeq(queue[k].path, 1, Len(queue[k].path) - 1)

\* The constructor is over: the queue is exhausted and the root returned, or
\* the resolver threw its duplicate-route error.
ConstructionEnded ==
    \/ pc = "ready" /\ qi > Len(queue) /\ builtTrie = trie
    \/ pc = "failed" /\ error # None /\ error[1].message = ErrSamePath

\* C13: construction always halts.  Every item of the work queue is one level
\* deeper than its parent and at most as deep as the longest route, and once
\* the routes are parsed the constructor ends with a trie or with the
\* duplicate-route error.
C13_ConstructionHalts ==
    /\ []QueueIsLayered
    /\ (pc = "building") ~> ConstructionEnded

\* The queue of a router with a route of two segments or more is exhausted.
C13_Witness ==
    /\ pc = "ready"
    /\ qi > Len(queue)
    /\ LongestRoute >= 2
    /\ \E k \in 1..Len(queue) : Len(queue[k].path) = LongestRoute

---------------------------------------------------------------------------
(* Claims about the walk of Router.match. *)

\* The registered patterns that match the path, as indices into `patterns`: a
\* splat pattern matches every path that begins with its other segments.
MatchingPatterns(path) ==
    { k \in 1..Len(patterns) :
        LET pre == PrefixSegments(patterns[k])
            segs == Split(path)
        IN IF IsSplatPattern(patterns[k])
           THEN Len(segs) >= Len(pre) /\ Fits(pre, SubSeq(segs, 1, Len(pre)))
           ELSE Fits(pre, segs) }

\* What pattern k offers at the 1-based position i: a literal or the end of
\* the pattern (0), a param (1), or the reach of its trailing `*` (2).
SegmentRank(k, i) ==
    LET pre == PrefixSegments(patterns[k]) IN
    IF i <= Len(pre) THEN (IF IsParamSegment(pre[i]) THEN 1 ELSE 0)
    ELSE IF IsSplatPattern(patterns[k]) THEN 2 ELSE 0

\* Pattern k is more specific than pattern j: at the first position where
\* their ranks differ, k has the lower one.
Outranks(k, j) ==
    LET last == Len(Split(patterns[k])) + Len(Split(patterns[j]))
        differ == { i \in 1..last : SegmentRank(k, i) # SegmentRank(j, i) }
    IN /\ differ # {}
       /\ LET i == CHOOSE i \in differ : \A h \in differ : i <= h
          IN SegmentRank(k, i) < SegmentRank(j, i)

\* The params a reference matcher reports for pattern k: the param captures,
\* and under "*" the path's further segments if there are any.
ReferenceParams(k, path) ==
    LET pre == PrefixSegments(patterns[k])
        segs == Split(path)
        captured == Captured(pre, SubSeq(segs, 1, Len(pre)))
        rest == Slice(segs, Len(pre))
    IN IF IsSplatPattern(patterns[k]) /\ rest # <<>>
       THEN [name \in DOMAIN captured \cup {<<"*">>} |->
                IF name = <<"*">> THEN Join(rest) ELSE captured[name]]
       ELSE captured

\* C14: the walk is complete and picks the best route.  On a constructed
\* router, match of a sanitized path returns null if and only if no registered
\* pattern matches the path; otherwise it returns a matching pattern that no
\* other matching pattern outranks, with the params a reference matcher
\* reports for it.
C14_WalkIsComplete ==
    (pc = "ready" /\ lastPath # None /\ SanitizedPath(lastPath[1]))
    => LET path == lastPath[1]
           matching == MatchingPatterns(path)
       IN IF matching = {} THEN lastResult[1].kind = "null"
          ELSE /\ lastResult[1].kind = "match"
               /\ \E k \in matching :
                     /\ lastResult[1].route = patterns[k]
                     /\ lastResult[1].params = ReferenceParams(k, path)
                     /\ \A j \in matching : ~Outranks(j, k)

---------------------------------------------------------------------------
(* Claims about the segments Route.constructor stores. *)

\* C15: the parser keeps param segments distinct from literal segments.  A
\* parsed route has one segment per pattern segment before a trailing `*`;
\* a `:name` segment is stored as the param marker, with its 0-based index
\* recorded under `name` in params, and every other segment as its text.
C15_ParamMarkerStored ==
    (parseOutput # <<>> /\ parseOutput[1].error = "")
    => LET route == parseOutput[1]
           pre == PrefixSegments(parseInput)
       IN /\ Len(route.segments) = Len(pre)
          /\ \A i \in 1..Len(pre) :
                IF IsParamSegment(pre[i])
                THEN /\ route.segments[i] = param
                     /\ HasOwnProperty(route.params, Tail(pre[i]))
                     /\ route.params[Tail(pre[i])] = i - 1
                ELSE route.segments[i] = pre[i]

---------------------------------------------------------------------------
(* Claims about the routes constructTrie hands to the resolver. *)

\* The `exactMatch` list of the queue item k: the argument of the item's
\* Route.findHighestPriorityRoute call.
ResolverArgument(k) ==
    LET i == Len(queue[k].path)
        IsExact(route) == IsExactMatch(route, i)
    IN SelectSeq(queue[k].routes, IsExact)

\* C16: the resolver's precondition holds on every call.  For every item of
\* the work queue, visited or waiting, every route of the list handed to the
\* resolver has as many segments as the item is deep, so the resolver's index
\* stays inside every route's segment list.
C16_ResolverPrecondition ==
    \A k \in 1..Len(queue) :
        LET depth == Len(queue[k].path)
            exactMatch == ResolverArgument(k)
        IN \A r \in 1..Len(exactMatch) : Len(exactMatch[r].segments) = depth

\* The resolver was called below the root with two routes and compared them.
C16_Witness ==
    /\ pc = "failed"
    /\ error # None /\ error[1].message = ErrSamePath
    /\ qi \in 1..Len(queue)
    /\ Len(queue[qi].path) >= 1
    /\ Len(ResolverArgument(qi)) >= 2

---------------------------------------------------------------------------
(* Claims about the RouteMatch that Router.match returns. *)

\* The names of the pattern's `:name` segments.
ParamNames(pattern) ==
    LET pre == PrefixSegments(pattern) IN
    { Tail(pre[i]) : i \in { i \in 1..Len(pre) : IsParamSegment(pre[i]) } }

\* The RouteMatch is sound for the registered pattern k and the path: the
\* path has the pattern's segments (at least those before a trailing `*`) and
\* agrees with it at the literal positions; params has the pattern's param
\* names as keys, and "*" for a splat pattern only; each param's value is the
\* path segment at one of that param's positions.
SoundFor(result, k, path) ==
    LET pattern == patterns[k]
        pre == PrefixSegments(pattern)
        segs == Split(path)
    IN /\ result.route = pattern
       /\ IF IsSplatPattern(pattern) THEN Len(segs) >= Len(pre) ELSE Len(segs) = Len(pre)
       /\ \A i \in 1..Len(pre) : IsParamSegment(pre[i]) \/ segs[i] = pre[i]
       /\ ParamNames(pattern) \subseteq DOMAIN result.params
       /\ DOMAIN result.params \subseteq
             ParamNames(pattern) \cup (IF IsSplatPattern(pattern) THEN {<<"*">>} ELSE {})
       /\ \A name \in ParamNames(pattern) :
             \E i \in 1..Len(pre) :
                 /\ pre[i] = <<":">> \o name
                 /\ result.params[name] = segs[i]

\* C17: match results are sound.  Whenever match returns a RouteMatch, it is
\* sound for one of the registered patterns and the path matched.
C17_MatchIsSound ==
    (pc = "ready" /\ lastPath # None /\ lastResult[1].kind = "match")
    => \E k \in 1..Len(patterns) : SoundFor(lastResult[1], k, lastPath[1])

====
